---- MODULE Spec2Model ----
(***************************************************************************)
(* Model of dashboard.py: the cleaning of the joined projects table        *)
(* (load_and_clean_data), the four aggregation queries (calculate_kpis,    *)
(* get_area_analysis, get_status_distribution,                             *)
(* prepare_cost_comparison_data) and the control flow of load_data/main.   *)
(*                                                                         *)
(* A CSV cell is a sequence of one-character strings; the empty sequence   *)
(* is an empty cell.  A float is a record [k, n, d]: k = "fin" is the      *)
(* rational n/d in lowest terms (d > 0), k = "nan", "inf", "ninf" are the  *)
(* IEEE specials pandas produces, k = "err" is a value that could not be   *)
(* parsed (float() raising ValueError).  Floating-point rounding error is  *)
(* not modelled: finite arithmetic is exact.  A run of main is one         *)
(* execution of the script; st.cache_data's reuse of load_data's result in *)
(* later runs is outside the model.                                        *)
(***************************************************************************)
EXTENDS Integers, Sequences, FiniteSets, TLC

VARIABLES
    fileExists,       \* whether data/joined_projects_data.csv is there
    raw,              \* the rows of the file, as text cells
    pc,               \* position of the run
    df,               \* the cleaned table (a sequence of rows)
    kpis,             \* result of calculate_kpis, a sequence of 0 or 1 records
    area_data,        \* result of get_area_analysis: 0 or 1 tables
    status_dist,      \* result of get_status_distribution: 0 or 1 pairs
    cost_comparison,  \* result of prepare_cost_comparison_data: 0 or 1 tables
    rendered,         \* what st.* has put on the page, in order
    loads             \* number of times load_and_clean_data was entered

vars == <<fileExists, raw, pc, df, kpis, area_data, status_dist,
          cost_comparison, rendered, loads>>

(***************************************************************************)
(* Bounds                                                                  *)
(***************************************************************************)
MaxRows == 3

(***************************************************************************)
(* Floats                                                                  *)
(***************************************************************************)
Abs(x) == IF x < 0 THEN -x ELSE x

RECURSIVE GCD(_, _)
GCD(a, b) == IF b = 0 THEN a ELSE GCD(b, a % b)

Fin(n, d) ==
    LET s == IF d < 0 THEN -1 ELSE 1
        g == GCD(Abs(n), Abs(d))
    IN  [k |-> "fin", n |-> (s * n) \div g, d |-> (s * d) \div g]

NaN  == [k |-> "nan",  n |-> 0, d |-> 1]
PInf == [k |-> "inf",  n |-> 0, d |-> 1]
NInf == [k |-> "ninf", n |-> 0, d |-> 1]
ParseError == [k |-> "err", n |-> 0, d |-> 1]
Zero == Fin(0, 1)

IsFin(x) == x.k = "fin"
IsNaN(x) == x.k = "nan"
Sign(x) == IF x.k = "inf" THEN 1
           ELSE IF x.k = "ninf" THEN -1
           ELSE IF x.n > 0 THEN 1 ELSE IF x.n < 0 THEN -1 ELSE 0
Signed(s) == IF s > 0 THEN PInf ELSE IF s < 0 THEN NInf ELSE NaN

\* Finite sums and products are formed over the least common denominator and
\* with common factors cancelled first, which keeps the integers small.
FAdd(x, y) ==
    IF IsNaN(x) \/ IsNaN(y) THEN NaN
    ELSE IF IsFin(x) /\ IsFin(y)
         THEN LET g == GCD(x.d, y.d)
              IN  Fin(x.n * (y.d \div g) + y.n * (x.d \div g), (x.d \div g) * y.d)
    ELSE IF IsFin(x) THEN y
    ELSE IF IsFin(y) THEN x
    ELSE IF x.k = y.k THEN x ELSE NaN

FNeg(x) == IF IsFin(x) THEN Fin(-x.n, x.d)
           ELSE IF x.k = "inf" THEN NInf
           ELSE IF x.k = "ninf" THEN PInf ELSE NaN

FSub(x, y) == FAdd(x, FNeg(y))

FMul(x, y) ==
    IF IsNaN(x) \/ IsNaN(y) THEN NaN
    ELSE IF IsFin(x) /\ IsFin(y)
         THEN LET g1 == GCD(Abs(x.n), y.d)
                  g2 == GCD(Abs(y.n), x.d)
              IN  Fin((x.n \div g1) * (y.n \div g2), (x.d \div g2) * (y.d \div g1))
    ELSE Signed(Sign(x) * Sign(y))

\* IEEE division as numpy does it on float64: x/0 is +-inf, 0/0 is nan.
FDiv(x, y) ==
    IF IsNaN(x) \/ IsNaN(y) THEN NaN
    ELSE IF IsFin(x) /\ IsFin(y)
         THEN IF y.n = 0 THEN Signed(Sign(x))
              ELSE FMul(x, [k |-> "fin", n |-> Sign(y) * y.d, d |-> Abs(y.n)])
    ELSE IF IsFin(x) THEN Zero
    ELSE IF IsFin(y) THEN Signed(Sign(x) * (IF Sign(y) < 0 THEN -1 ELSE 1))
    ELSE NaN

FGt(x, y) ==
    IF IsNaN(x) \/ IsNaN(y) THEN FALSE
    ELSE IF IsFin(x) /\ IsFin(y) THEN x.n * y.d > y.n * x.d
    ELSE IF x.k = y.k THEN FALSE
    ELSE x.k = "inf" \/ y.k = "ninf"

Hundred == Fin(100, 1)

\* DataFrame.round(2): round half to even at two decimals.
Round2(x) ==
    IF ~IsFin(x) THEN x
    ELSE LET whole == x.n \div x.d
             m == (x.n - whole * x.d) * 100
             q == m \div x.d
             r == m - q * x.d
             c == IF 2 * r < x.d THEN q
                  ELSE IF 2 * r > x.d THEN q + 1
                  ELSE IF q % 2 = 0 THEN q ELSE q + 1
         IN  Fin(whole * 100 + c, 100)

(***************************************************************************)
(* Text cells and the parsers applied to them                              *)
(***************************************************************************)
DigitChars == <<"0", "1", "2", "3", "4", "5", "6", "7", "8", "9">>
IsDigit(c) == \E i \in 1..Len(DigitChars) : DigitChars[i] = c
DigitVal(c) == (CHOOSE i \in 1..Len(DigitChars) : DigitChars[i] = c) - 1

\* pd.read_csv turns these cell texts into NaN (its default na_values).
NaValues == { <<>>, <<"n", "/", "a">>, <<"N", "A">>, <<"n", "a", "n">> }
IsNA(cell) == cell \in NaValues

\* Series.astype(str): a NaN cell reads "nan".
AsTypeStr(cell) == IF IsNA(cell) THEN <<"n", "a", "n">> ELSE cell

\* Series.str.contains(ch)
StrContains(s, ch) == \E i \in 1..Len(s) : s[i] = ch

\* Series.str.replace(old, new) for a one-character pattern; new is a string
\* of zero or one characters, given as a sequence.
RECURSIVE StrReplace(_, _, _)
StrReplace(s, old, new) ==
    IF s = <<>> THEN <<>>
    ELSE (IF Head(s) = old THEN new ELSE <<Head(s)>>)
         \o StrReplace(Tail(s), old, new)

RECURSIVE DigitsToInt(_)
DigitsToInt(s) ==
    IF s = <<>> THEN 0
    ELSE DigitsToInt(SubSeq(s, 1, Len(s) - 1)) * 10 + DigitVal(s[Len(s)])

RECURSIVE Pow10(_)
Pow10(e) == IF e = 0 THEN 1 ELSE 10 * Pow10(e - 1)

\* float(text) for decimal literals: optional sign, digits with at most one
\* point, at least one digit.  Anything else raises ValueError (ParseError).
ParseFloat(s) ==
    LET neg   == s # <<>> /\ s[1] = "-"
        body  == IF neg THEN Tail(s) ELSE s
        dots  == {i \in 1..Len(body) : body[i] = "."}
        shape == /\ \A i \in 1..Len(body) : IsDigit(body[i]) \/ body[i] = "."
                 /\ Cardinality(dots) <= 1
                 /\ \E i \in 1..Len(body) : IsDigit(body[i])
        dot   == IF dots = {} THEN Len(body) + 1 ELSE CHOOSE i \in dots : TRUE
        whole == SubSeq(body, 1, dot - 1)
        frac  == SubSeq(body, dot + 1, Len(body))
        mag   == DigitsToInt(whole \o frac)
    IN  IF ~shape THEN ParseError
        ELSE Fin(IF neg THEN -mag ELSE mag, Pow10(Len(frac)))

\* pd.to_numeric(cell, errors='coerce'): NaN for an empty or unparsable cell.
ToNumericCoerce(cell) ==
    IF IsNA(cell) THEN NaN
    ELSE LET v == ParseFloat(cell) IN IF v.k = "err" THEN NaN ELSE v

\* Series.fillna(0)
FillNa0(x) == IF IsNaN(x) THEN Zero ELSE x

\* Calendar dates: [k |-> "date", y, m, d], or NaT.
NaT == [k |-> "nat", y |-> 0, m |-> 0, d |-> 0]
IsLeap(y) == (y % 4 = 0 /\ y % 100 # 0) \/ y % 400 = 0
DaysIn(y, m) == IF m = 2 THEN (IF IsLeap(y) THEN 29 ELSE 28)
                ELSE IF m \in {4, 6, 9, 11} THEN 30 ELSE 31

\* pd.to_datetime(cell, errors='coerce') on ISO texts YYYY-MM-DD: NaT for an
\* empty cell, a text of another shape or a date that does not exist.
ToDatetimeCoerce(cell) ==
    LET shape == /\ Len(cell) = 10
                 /\ cell[5] = "-" /\ cell[8] = "-"
                 /\ \A i \in {1, 2, 3, 4, 6, 7, 9, 10} : IsDigit(cell[i])
        y == DigitsToInt(SubSeq(cell, 1, 4))
        m == DigitsToInt(SubSeq(cell, 6, 7))
        d == DigitsToInt(SubSeq(cell, 9, 10))
    IN  IF IsNA(cell) \/ ~shape THEN NaT
        ELSE IF m \in 1..12 /\ d \in 1..DaysIn(y, m)
             THEN [k |-> "date", y |-> y, m |-> m, d |-> d]
             ELSE NaT

(***************************************************************************)
(* Series helpers                                                          *)
(***************************************************************************)
\* Series.sum(): NaN entries are skipped.
RECURSIVE SumSkipNa(_)
SumSkipNa(xs) ==
    IF xs = <<>> THEN Zero
    ELSE IF IsNaN(Head(xs)) THEN SumSkipNa(Tail(xs))
    ELSE FAdd(Head(xs), SumSkipNa(Tail(xs)))

NotNa(xs) == SelectSeq(xs, LAMBDA x : ~IsNaN(x))

\* Variant: the NaN entries count as 0 (no skipna).
MeanNaAsZero(xs) ==
    IF xs = <<>> THEN NaN
    ELSE FDiv(SumSkipNa(xs), Fin(Len(xs), 1))

\* Series.mean(): the mean of the non-NaN entries, NaN when there are none.
MeanSkipNa(xs) ==
    IF NotNa(xs) = <<>> THEN NaN
    ELSE FDiv(SumSkipNa(xs), Fin(Len(NotNa(xs)), 1))

\* df[field]
Col(t, field) == [i \in 1..Len(t) |-> t[i][field]]

\* DataFrame.drop_duplicates(subset=['project_id']): the first row of each
\* project identifier, in table order.
RECURSIVE FirstRows(_, _)
FirstRows(t, i) ==
    IF i = 0 THEN <<>>
    ELSE IF \E j \in 1..(i - 1) : t[j].project_id = t[i].project_id
         THEN FirstRows(t, i - 1)
         ELSE Append(FirstRows(t, i - 1), t[i])

DropDuplicates(t) == FirstRows(t, Len(t))

\* df.groupby(key): rows whose key is NaN form no group.
GroupKeys(t, key) == {t[i][key] : i \in {j \in 1..Len(t) : ~IsNA(t[j][key])}}
Group(t, key, g) == SelectSeq(t, LAMBDA r : r[key] = g)

\* Series.nunique(): the number of distinct non-NaN values.
NUnique(t, field) == Cardinality(GroupKeys(t, field))

(***************************************************************************)
(* load_and_clean_data                                                     *)
(***************************************************************************)
\* (df['project_id'] != ''): a NaN cell is different from ''.
NotEmptyStr(cell) == IsNA(cell) \/ cell # <<>>

\* Variant: the two tests joined with | instead of &.
KeepRowEither(r) == ~IsNA(r.project_id) \/ NotEmptyStr(r.project_id)

KeepRow(r) == ~IsNA(r.project_id) /\ NotEmptyStr(r.project_id)

PercentMask(r) == StrContains(AsTypeStr(r.conclusao), "%")

\* The percent branch: strip '%', ',' -> '.', float(...) / 100.
PercentValue(r) ==
    LET v == ParseFloat(StrReplace(StrReplace(AsTypeStr(r.conclusao), "%", <<>>),
                                   ",", <<".">>))
    IN  IF v.k = "err" THEN ParseError ELSE FDiv(v, Hundred)

CleanConclusao(r) ==
    IF PercentMask(r) THEN PercentValue(r) ELSE ToNumericCoerce(r.conclusao)

CleanRow(r) ==
    [project_id |-> r.project_id, area |-> r.area, status |-> r.status,
     conclusao |-> r.conclusao, valor |-> r.valor,
     custo_previsto |-> r.custo_previsto, inicio |-> r.inicio, prazo |-> r.prazo,
     conclusao_clean |-> CleanConclusao(r),
     valor_clean |-> FillNa0(ToNumericCoerce(r.valor)),
     custo_previsto_clean |-> FillNa0(ToNumericCoerce(r.custo_previsto)),
     inicio_clean |-> ToDatetimeCoerce(r.inicio),
     prazo_clean |-> ToDatetimeCoerce(r.prazo)]

\* The outcome of load_and_clean_data: the exception it raises ("none" when it
\* returns) and the table it returns.
load_and_clean_data(exists, rows) ==
    LET kept == SelectSeq(rows, KeepRow)
        bad  == \E i \in 1..Len(kept) :
                    PercentMask(kept[i]) /\ PercentValue(kept[i]).k = "err"
    IN  IF ~exists THEN [exc |-> "FileNotFoundError", df |-> <<>>]
        ELSE IF bad THEN [exc |-> "ValueError", df |-> <<>>]
        ELSE [exc |-> "none", df |-> [i \in 1..Len(kept) |-> CleanRow(kept[i])]]

(***************************************************************************)
(* The aggregation queries.  Each takes the table by reference and yields  *)
(* [table |-> the caller's table after the call, result |-> what it        *)
(* returns].                                                               *)
(***************************************************************************)
StatusCounts(t) ==
    [s \in GroupKeys(t, "status") |-> NUnique(Group(t, "status", s), "project_id")]

CostVariance(actual, planned) ==
    IF FGt(planned, Zero)
    THEN FMul(FDiv(FSub(actual, planned), planned), Hundred)
    ELSE Zero

\* Variant: the mean taken over the first row of each project.
AvgCompletionPerProject(t) ==
    LET m == MeanSkipNa(Col(DropDuplicates(t), "conclusao_clean"))
    IN  IF IsNaN(m) THEN Zero ELSE m

AvgCompletion(t) ==
    LET m == MeanSkipNa(Col(t, "conclusao_clean")) IN IF IsNaN(m) THEN Zero ELSE m

PlannedCosts(t) == SumSkipNa(Col(DropDuplicates(t), "custo_previsto_clean"))
ActualCosts(t) == SumSkipNa(Col(t, "valor_clean"))

calculate_kpis(t) ==
    [table  |-> t,
     result |-> [total_projects |-> NUnique(t, "project_id"),
                 status_counts  |-> StatusCounts(t),
                 avg_completion |-> AvgCompletion(t),
                 planned_costs  |-> PlannedCosts(t),
                 actual_costs   |-> ActualCosts(t),
                 cost_variance  |-> CostVariance(ActualCosts(t), PlannedCosts(t))]]

\* The areas that get a row: the groups of the de-duplicated table.
AreaIndex(t) == GroupKeys(DropDuplicates(t), "area")

AreaRow(t, a) ==
    LET g == Group(DropDuplicates(t), "area", a)
    IN  [qtd_projetos         |-> Len(g),
         custo_previsto_total |-> Round2(Round2(SumSkipNa(Col(g, "custo_previsto_clean")))),
         conclusao_media      |-> Round2(Round2(MeanSkipNa(Col(g, "conclusao_clean")))),
         custo_real_total     |-> Round2(SumSkipNa(Col(Group(t, "area", a), "valor_clean")))]

\* Variant: drop_duplicates(..., inplace=True) on the caller's table.
get_area_analysis_inplace(t) ==
    [table  |-> DropDuplicates(t),
     result |-> [a \in AreaIndex(t) |-> AreaRow(t, a)]]

get_area_analysis(t) ==
    [table  |-> t,
     result |-> [a \in AreaIndex(t) |-> AreaRow(t, a)]]

\* The statuses with a colour of their own (the keys of status_colors).
EmDia     == <<"e", "m", " ", "d", "i", "a">>
Atrasado  == <<"a", "t", "r", "a", "s", "a", "d", "o">>
Critico   == <<"c", "r", "i", "t", "i", "c", "o">>
Pausado   == <<"p", "a", "u", "s", "a", "d", "o">>
Concluido == <<"c", "o", "n", "c", "l", "u", "i", "d", "o">>
Andamento == <<"a", "n", "d", "a", "m", "e", "n", "t", "o">>

KnownColors ==
    (EmDia :> "#2E8B57") @@ (Atrasado :> "#FF8C00") @@ (Critico :> "#DC143C")
    @@ (Pausado :> "#708090") @@ (Concluido :> "#4682B4")
    @@ (Andamento :> "#3CB371")

\* The dict literal extended with gray for every other status of the counts.
StatusColors(counts) ==
    [s \in DOMAIN KnownColors \cup DOMAIN counts |->
        IF s \in DOMAIN KnownColors THEN KnownColors[s] ELSE "#A9A9A9"]

get_status_distribution(t) ==
    [table  |-> t,
     result |-> [status_counts |-> StatusCounts(t),
                 status_colors |-> StatusColors(StatusCounts(t))]]

\* (actual - planned) / planned * 100 on float64 columns, rounded to 2 places.
VariancePercent(actual, planned) ==
    Round2(FMul(FDiv(FSub(actual, planned), planned), Hundred))

\* groupby('project_id')['valor_clean'].sum(), left-merged and fillna(0).
ProjectActual(t, p) ==
    FillNa0(IF p \in GroupKeys(t, "project_id")
            THEN SumSkipNa(Col(Group(t, "project_id", p), "valor_clean"))
            ELSE NaN)

CostRow(t, r) ==
    [project_id           |-> r.project_id,
     area                 |-> r.area,
     custo_previsto_clean |-> r.custo_previsto_clean,
     custo_real_total     |-> ProjectActual(t, r.project_id),
     variance_percent     |-> VariancePercent(ProjectActual(t, r.project_id),
                                              r.custo_previsto_clean)]

prepare_cost_comparison_data(t) ==
    [table  |-> t,
     result |-> [i \in 1..Len(DropDuplicates(t)) |-> CostRow(t, DropDuplicates(t)[i])]]

(***************************************************************************)
(* The files the runs are given                                            *)
(***************************************************************************)
Row(pid, area, status, conclusao, valor, custo, inicio, prazo) ==
    [project_id |-> pid, area |-> area, status |-> status,
     conclusao |-> conclusao, valor |-> valor, custo_previsto |-> custo,
     inicio |-> inicio, prazo |-> prazo]

P1 == <<"P", "1">>
P2 == <<"P", "2">>
P3 == <<"P", "3">>
AreaA == <<"A">>
AreaB == <<"B">>
Novo == <<"n", "o", "v", "o">>
Empty == <<>>
Jan15 == <<"2", "0", "2", "4", "-", "0", "1", "-", "1", "5">>
Feb30 == <<"2", "0", "2", "4", "-", "0", "2", "-", "3", "0">>
Abc == <<"a", "b", "c">>

\* The three rows of the end-to-end scenario.
Scenario1 == Row(P1, AreaA, EmDia, <<"5", "0", "%">>, <<"4", "0", "0">>,
                 <<"1", "0", "0", "0">>, Jan15, Jan15)
Scenario2 == Row(P1, AreaA, EmDia, <<"5", "0", "%">>, <<"2", "0", "0">>,
                 <<"1", "0", "0", "0">>, Jan15, Jan15)
Scenario3 == Row(P2, AreaB, Atrasado, <<"0", ".", "2">>, <<"6", "0", "0">>,
                 <<"5", "0", "0">>, Jan15, Jan15)
ScenarioRows == <<Scenario1, Scenario2, Scenario3>>

InputRows ==
    { Scenario1, Scenario2, Scenario3,
      \* a row of P1 in the other area, completion missing, a date that does
      \* not exist
      Row(P1, AreaB, EmDia, Empty, <<"1", "0", "0">>, <<"1", "0", "0", "0">>,
          Feb30, Jan15),
      \* no area, a status without a colour, unparsable actual cost and deadline
      Row(P2, Empty, Novo, <<"0", ",", "7", "%">>, Abc, <<"2", "5", "0">>, Jan15,
          Abc),
      \* amounts with a third decimal
      Row(P3, AreaA, Atrasado, <<"0", ".", "3">>, <<"0", ".", "0", "0", "4">>,
          <<"1", "0", ".", "0", "0", "4">>, Jan15, Jan15),
      \* no status, unparsable completion without a percent sign, negative
      \* planned cost
      Row(P3, AreaB, Empty, <<"n", "/", "a">>, <<"3", "0", "0">>,
          <<"-", "5", "0", "0">>, Empty, Jan15),
      \* no project identifier
      Row(Empty, AreaA, EmDia, <<"7", "0", "%">>, <<"5", "0">>, <<"5", "0">>,
          Jan15, Jan15),
      \* unparsable completion with a percent sign
      Row(P2, AreaB, Atrasado, <<"a", "b", "c", "%">>, <<"1", "0">>, <<"1", "0">>,
          Jan15, Jan15),
      \* planned and actual cost both 0
      Row(P3, AreaA, Critico, <<"0", ".", "5">>, <<"0">>, <<"0">>, Jan15, Jan15) }

Tables == UNION {[1..n -> InputRows] : n \in 0..MaxRows}

(***************************************************************************)
(* The functions called in any order (the module used as a library)        *)
(***************************************************************************)
Init ==
    /\ fileExists \in BOOLEAN
    /\ raw \in (IF fileExists THEN Tables ELSE {<<>>})
    /\ pc = "start"
    /\ df = <<>>
    /\ kpis = <<>>
    /\ area_data = <<>>
    /\ status_dist = <<>>
    /\ cost_comparison = <<>>
    /\ rendered = <<>>
    /\ loads = 0

\* df = load_and_clean_data(path)
LoadAndClean ==
    /\ pc = "start"
    /\ loads' = loads + 1
    /\ LET out == load_and_clean_data(fileExists, raw)
       IN  /\ pc' = IF out.exc = "none" THEN "loaded" ELSE out.exc
           /\ df' = IF out.exc = "none" THEN <<out.df>> ELSE <<>>
    /\ UNCHANGED <<fileExists, raw, kpis, area_data, status_dist,
                   cost_comparison, rendered>>

CalculateKpis ==
    /\ pc = "loaded"
    /\ LET out == calculate_kpis(df[1])
       IN  /\ kpis' = <<out.result>>
           /\ df' = <<out.table>>
    /\ UNCHANGED <<fileExists, raw, pc, area_data, status_dist,
                   cost_comparison, rendered, loads>>

GetAreaAnalysis ==
    /\ pc = "loaded"
    /\ LET out == get_area_analysis(df[1])
       IN  /\ area_data' = <<out.result>>
           /\ df' = <<out.table>>
    /\ UNCHANGED <<fileExists, raw, pc, kpis, status_dist,
                   cost_comparison, rendered, loads>>

GetStatusDistribution ==
    /\ pc = "loaded"
    /\ LET out == get_status_distribution(df[1])
       IN  /\ status_dist' = <<out.result>>
           /\ df' = <<out.table>>
    /\ UNCHANGED <<fileExists, raw, pc, kpis, area_data,
                   cost_comparison, rendered, loads>>

PrepareCostComparison ==
    /\ pc = "loaded"
    /\ LET out == prepare_cost_comparison_data(df[1])
       IN  /\ cost_comparison' = <<out.result>>
           /\ df' = <<out.table>>
    /\ UNCHANGED <<fileExists, raw, pc, kpis, area_data,
                   status_dist, rendered, loads>>

Next ==
    \/ LoadAndClean
    \/ CalculateKpis
    \/ GetAreaAnalysis
    \/ GetStatusDistribution
    \/ PrepareCostComparison

Spec == Init /\ [][Next]_vars

(***************************************************************************)
(* One run of main()                                                       *)
(***************************************************************************)
InitMain ==
    /\ fileExists \in BOOLEAN
    /\ raw \in (IF fileExists THEN Tables ELSE {<<>>})
    /\ pc = "main"
    /\ df = <<>>
    /\ kpis = <<>>
    /\ area_data = <<>>
    /\ status_dist = <<>>
    /\ cost_comparison = <<>>
    /\ rendered = <<>>
    /\ loads = 0

\* set_page_config, title, rule
MainHeader ==
    /\ pc = "main"
    /\ rendered' = Append(rendered, "title")
    /\ pc' = "load_data"
    /\ UNCHANGED <<fileExists, raw, df, kpis, area_data, status_dist,
                   cost_comparison, loads>>

\* Variant: on FileNotFoundError load_data returns an empty table, not None.
LoadDataEmptyTable ==
    /\ pc = "load_data"
    /\ loads' = loads + 1
    /\ LET out == load_and_clean_data(fileExists, raw)
       IN  /\ df' = IF out.exc \in {"none", "FileNotFoundError"}
                    THEN <<out.df>> ELSE <<>>
           /\ rendered' = IF out.exc = "FileNotFoundError"
                          THEN Append(rendered, "error: file not found")
                          ELSE rendered
           /\ pc' = IF out.exc \in {"none", "FileNotFoundError"}
                    THEN "check" ELSE out.exc
    /\ UNCHANGED <<fileExists, raw, kpis, area_data, status_dist,
                   cost_comparison>>

\* df = load_data(): FileNotFoundError is caught, reported and turned into
\* None; any other exception leaves load_data and main.
LoadData ==
    /\ pc = "load_data"
    /\ loads' = loads + 1
    /\ LET out == load_and_clean_data(fileExists, raw)
       IN  /\ df' = IF out.exc = "none" THEN <<out.df>> ELSE <<>>
           /\ rendered' = IF out.exc = "FileNotFoundError"
                          THEN Append(rendered, "error: file not found")
                          ELSE rendered
           /\ pc' = IF out.exc \in {"none", "FileNotFoundError"}
                    THEN "check" ELSE out.exc
    /\ UNCHANGED <<fileExists, raw, kpis, area_data, status_dist,
                   cost_comparison>>

\* if df is None: st.error(...); return
MainCheck ==
    /\ pc = "check"
    /\ rendered' = IF df = <<>>
                   THEN Append(rendered, "error: could not load the data")
                   ELSE rendered
    /\ pc' = IF df = <<>> THEN "done" ELSE "kpis"
    /\ UNCHANGED <<fileExists, raw, df, kpis, area_data, status_dist,
                   cost_comparison, loads>>

\* kpis = calculate_kpis(df); display_kpi_cards(kpis)
MainKpis ==
    /\ pc = "kpis"
    /\ LET out == calculate_kpis(df[1])
       IN  /\ kpis' = <<out.result>>
           /\ df' = <<out.table>>
    /\ rendered' = Append(rendered, "kpi cards")
    /\ pc' = "area"
    /\ UNCHANGED <<fileExists, raw, area_data, status_dist, cost_comparison,
                   loads>>

MainArea ==
    /\ pc = "area"
    /\ LET out == get_area_analysis(df[1])
       IN  /\ area_data' = <<out.result>>
           /\ df' = <<out.table>>
    /\ pc' = "status"
    /\ UNCHANGED <<fileExists, raw, kpis, status_dist, cost_comparison,
                   rendered, loads>>

MainStatus ==
    /\ pc = "status"
    /\ LET out == get_status_distribution(df[1])
       IN  /\ status_dist' = <<out.result>>
           /\ df' = <<out.table>>
    /\ pc' = "cost"
    /\ UNCHANGED <<fileExists, raw, kpis, area_data, cost_comparison,
                   rendered, loads>>

MainCost ==
    /\ pc = "cost"
    /\ LET out == prepare_cost_comparison_data(df[1])
       IN  /\ cost_comparison' = <<out.result>>
           /\ df' = <<out.table>>
    /\ pc' = "charts"
    /\ UNCHANGED <<fileExists, raw, kpis, area_data, status_dist,
                   rendered, loads>>

\* The pie chart (when there is a status), the cost chart, the area chart,
\* the detail table and the footer.
MainCharts ==
    /\ pc = "charts"
    /\ rendered' = (IF DOMAIN status_dist[1].status_counts # {}
                    THEN Append(rendered, "status pie chart") ELSE rendered)
                   \o <<"cost chart", "area chart", "area table", "footer">>
    /\ pc' = "done"
    /\ UNCHANGED <<fileExists, raw, df, kpis, area_data, status_dist,
                   cost_comparison, loads>>

NextMain ==
    \/ MainHeader
    \/ LoadData
    \/ MainCheck
    \/ MainKpis
    \/ MainArea
    \/ MainStatus
    \/ MainCost
    \/ MainCharts

SpecMain == InitMain /\ [][NextMain]_vars

(***************************************************************************)
(* Properties                                                              *)
(***************************************************************************)
KpisRecord(total, counts, avg, planned, actual, variance) ==
    [total_projects |-> total, status_counts |-> counts,
     avg_completion |-> avg, planned_costs |-> planned,
     actual_costs |-> actual, cost_variance |-> variance]

ScenarioCounts == (EmDia :> 1) @@ (Atrasado :> 1)

\* C1 (as claimed): cleaning the three scenario rows and computing the KPIs
\* gives 2 projects, one 'em dia' and one 'atrasado', avg_completion 0.35,
\* planned 1500, actual 1200 and cost_variance -20.0.
C1_ScenarioAsClaimed ==
    (raw = ScenarioRows /\ kpis # <<>>) =>
        kpis[1] = KpisRecord(2, ScenarioCounts, Fin(35, 100), Fin(1500, 1),
                             Fin(1200, 1), Fin(-20, 1))

\* C1 (amended): the same scenario gives avg_completion 0.4, the mean of the
\* three rows' completions 0.5, 0.5 and 0.2; the other five values are as
\* claimed.
C1_Scenario ==
    (raw = ScenarioRows /\ kpis # <<>>) =>
        kpis[1] = KpisRecord(2, ScenarioCounts, Fin(2, 5), Fin(1500, 1),
                             Fin(1200, 1), Fin(-20, 1))

C1_Witness == raw = ScenarioRows /\ kpis # <<>> /\ Len(df[1]) = 3

\* C2: whenever the file can be read, load_and_clean_data returns a table
\* (it raises nothing), an unparsable completion cell is missing in it, an
\* unparsable cost cell is 0 and an unparsable date cell is missing.
C2_CleaningTotal ==
    (fileExists /\ pc # "start") =>
        /\ pc = "loaded"
        /\ \A i \in 1..Len(df[1]) :
              LET r == df[1][i]
                  number(cell) == ParseFloat(StrReplace(StrReplace(cell, "%", <<>>),
                                                        ",", <<".">>))
              IN  /\ number(r.conclusao).k = "err" => IsNaN(r.conclusao_clean)
                  /\ ParseFloat(r.valor).k = "err" => r.valor_clean = Zero
                  /\ ParseFloat(r.custo_previsto).k = "err"
                        => r.custo_previsto_clean = Zero
                  /\ r.inicio \in {Empty, Abc, Feb30} => r.inicio_clean = NaT
                  /\ r.prazo \in {Empty, Abc, Feb30} => r.prazo_clean = NaT

\* The rows of the table whose completion is not missing.
Completed(t) == {i \in 1..Len(t) : ~IsNaN(t[i].conclusao_clean)}

\* The sum of a field over the rows (or keys) I of a table.
RECURSIVE SumAt(_, _, _)
SumAt(t, field, I) ==
    IF I = {} THEN Zero
    ELSE LET i == CHOOSE j \in I : TRUE
         IN  FAdd(t[i][field], SumAt(t, field, I \ {i}))

\* C3: avg_completion is the arithmetic mean of conclusao_clean over the rows
\* where it is not missing (avg * count = sum over those rows), and 0.0 when
\* there is no such row.
C3_AvgCompletion ==
    kpis # <<>> =>
        LET t == df[1]
            I == Completed(t)
        IN  IF I = {} THEN kpis[1].avg_completion = Zero
            ELSE FMul(kpis[1].avg_completion, Fin(Cardinality(I), 1))
                    = SumAt(t, "conclusao_clean", I)

\* completions {0.5, missing, 0.3}: the mean is 0.4
C3_Witness ==
    /\ kpis # <<>>
    /\ Len(df[1]) = 3
    /\ {df[1][i].conclusao_clean : i \in 1..3} = {Fin(1, 2), NaN, Fin(3, 10)}
    /\ kpis[1].avg_completion = Fin(2, 5)

\* rows, none of them with a completion: the mean is reported as 0.0
C3_WitnessNone ==
    kpis # <<>> /\ Len(df[1]) > 0 /\ Completed(df[1]) = {}

\* The first row of each project identifier.
FirstOf(t) ==
    {i \in 1..Len(t) : \A j \in 1..(i - 1) : t[j].project_id # t[i].project_id}

\* C4: with planned the sum of custo_previsto_clean over the first row of each
\* project and actual the sum of valor_clean over all rows, cost_variance is
\* (actual - planned) / planned * 100 when planned is not 0 and 0.0 when it is.
C4_CostVariance ==
    kpis # <<>> =>
        LET t == df[1]
            planned == SumAt(t, "custo_previsto_clean", FirstOf(t))
            actual  == SumAt(t, "valor_clean", 1..Len(t))
        IN  kpis[1].cost_variance =
               IF planned = Zero THEN Zero
               ELSE FMul(FDiv(FSub(actual, planned), planned), Hundred)

\* C5: in the per-project cost comparison every project whose planned cost is
\* 0 has variance_percent 0.0.
C5_ZeroPlannedVariance ==
    cost_comparison # <<>> =>
        \A i \in 1..Len(cost_comparison[1]) :
            cost_comparison[1][i].custo_previsto_clean = Zero
                => cost_comparison[1][i].variance_percent = Zero

\* C6: planned_costs of calculate_kpis equals the sum of custo_previsto_total
\* over the rows of get_area_analysis.
C6_PlannedCostsAgree ==
    (kpis # <<>> /\ area_data # <<>>) =>
        kpis[1].planned_costs
            = SumAt(area_data[1], "custo_previsto_total", DOMAIN area_data[1])

\* C7: every area that appears in a row of the table has a row in the area
\* analysis whose custo_real_total is the sum of valor_clean over all rows of
\* that area, and these totals add up to actual_costs.
C7_ActualCostsByArea ==
    area_data # <<>> =>
        LET t == df[1]
        IN  /\ \A i \in 1..Len(t) :
                  ~IsNA(t[i].area) =>
                     /\ t[i].area \in DOMAIN area_data[1]
                     /\ area_data[1][t[i].area].custo_real_total
                           = SumAt(t, "valor_clean",
                                   {j \in 1..Len(t) : t[j].area = t[i].area})
            /\ kpis # <<>> =>
                  SumAt(area_data[1], "custo_real_total", DOMAIN area_data[1])
                      = kpis[1].actual_costs

LoadFailed ==
    \E i \in 1..Len(rendered) : rendered[i] = "error: file not found"

\* C8: in a run of main where the file is missing, the failure is reported
\* and from then on nothing is computed or rendered: no KPIs, no aggregation
\* result, nothing on the page but the title and the error messages, the
\* second of which is there when the run has ended, and the load is entered
\* once.
C8_LoadFailureHaltsRun ==
    /\ (~fileExists /\ pc \notin {"main", "load_data"}) => LoadFailed
    /\ LoadFailed =>
          /\ kpis = <<>> /\ area_data = <<>>
          /\ status_dist = <<>> /\ cost_comparison = <<>>
          /\ df = <<>>
          /\ loads = 1
          /\ pc \in {"check", "done"}
          /\ \A i \in 1..Len(rendered) :
                rendered[i] \in {"title", "error: file not found",
                                 "error: could not load the data"}
          /\ pc = "done" =>
                rendered = <<"title", "error: file not found",
                             "error: could not load the data">>

C8_Witness == LoadFailed /\ pc = "done"

RawOf(r) ==
    Row(r.project_id, r.area, r.status, r.conclusao, r.valor, r.custo_previsto,
        r.inicio, r.prazo)

\* C9: the cleaned table holds exactly the input rows whose project
\* identifier is neither null nor empty, in their order; no row of it has a
\* missing or empty identifier.
C9_RowsKept ==
    pc = "loaded" =>
        LET t    == df[1]
            keep == SelectSeq(raw, LAMBDA r : r.project_id \notin NaValues)
        IN  /\ Len(t) = Len(keep)
            /\ \A i \in 1..Len(t) : RawOf(t[i]) = keep[i]
            /\ \A i \in 1..Len(t) : t[i].project_id # <<>>
                                    /\ t[i].project_id \notin NaValues

C9_Witness ==
    /\ pc = "loaded"
    /\ Len(raw) = 3 /\ Len(df[1]) = 2
    /\ raw[2].project_id = <<>>

\* C10: a call of any of the four queries leaves the cleaned table as it was
\* and does not change a result that an earlier call of the same query gave;
\* the colour mapping holds the six fixed statuses and the statuses of the
\* table, nothing else.
C10_QueriesArePure ==
    [][ pc = "loaded" =>
          /\ df' = df
          /\ kpis # <<>> => kpis' = kpis
          /\ area_data # <<>> => area_data' = area_data
          /\ status_dist # <<>> => status_dist' = status_dist
          /\ cost_comparison # <<>> => cost_comparison' = cost_comparison
          /\ status_dist' # <<>> =>
                DOMAIN status_dist'[1].status_colors
                    = DOMAIN KnownColors
                      \cup {df[1][i].status :
                              i \in {j \in 1..Len(df[1]) : ~IsNA(df[1][j].status)}}
      ]_vars

C10_Witness ==
    /\ kpis # <<>> /\ area_data # <<>>
    /\ status_dist # <<>> /\ cost_comparison # <<>>
    /\ Len(df[1]) = 3 /\ Len(cost_comparison[1]) = 2
    /\ Novo \in DOMAIN status_dist[1].status_colors

====
